---- MODULE Spec2Model ----
(***************************************************************************)
(* Routing core of the reverse tunnel: the clusterPeers registry and its   *)
(* heartbeat-based peer selection, clusterPeer.Dial through a peer proxy,  *)
(* and localSite.Dial / SetAgent; and the web client's TtyTerminal with    *)
(* its debounced window resize.                                            *)
(***************************************************************************)
EXTENDS Integers, Sequences, FiniteSets, TLC

(* ------------------------------ bounds --------------------------------- *)

\* number of clusterPeer objects that are ever constructed
MaxPeers == 2

\* number of goroutines calling localSite.Dial
NumDialers == 2

\* number of SetAgent calls
MaxSetAgent == 2

\* defaults.ReverseTunnelOfflineThreshold, in abstract time units
ReverseTunnelOfflineThreshold == 1

\* largest time stamp: leaves room for a difference of threshold + 1
MaxTime == ReverseTunnelOfflineThreshold + 1

\* WINDOW_RESIZE_DEBOUNCE_DELAY (200 ms), in clock ticks of 100 ms
WINDOW_RESIZE_DEBOUNCE_DELAY == 2

\* number of resize events the browser window delivers
MaxResizeEvents == 2

(* ------------------------------ values --------------------------------- *)

\* tunnel connection names (services.TunnelConnection.GetName)
Names == {"conn-a", "conn-b"}

\* (proxy address, cluster name) carried by a tunnel connection descriptor
Endpoints == {<<"proxy-1:3024", "prod">>, <<"proxy-2:3024", "edge">>}

\* time stamps; 0 is the zero time.Time{}
Times == 0 .. MaxTime

\* services.TunnelConnection descriptors
TunnelConns ==
  { [name |-> n, proxyAddr |-> e[1], clusterName |-> e[2], lastHeartbeat |-> t] :
      n \in Names, e \in Endpoints, t \in Times }

\* descriptors of the registry runs: every name and heart beat, one endpoint
HeartbeatConns == { c \in TunnelConns : c.proxyAddr = "proxy-1:3024" }

\* descriptors of the concurrent runs: every name, two heart beats
ConcConns == { c \in HeartbeatConns : c.lastHeartbeat <= 1 }

\* descriptors of the dial runs: every endpoint, one name and heart beat
DialConns == { c \in TunnelConns : c.name = "conn-a" /\ c.lastHeartbeat = 0 }

\* dial targets and sources (net.Addr.String())
Targets == {"10.0.0.5:22", "10.0.0.6:3022"}

Sources == {"127.0.0.1:5000"}

RemoteSiteStatusOnline == "online"
RemoteSiteStatusOffline == "offline"

\* the nil *clusterPeer
NilPeer == 0

(* ------------------------------- state --------------------------------- *)

VARIABLES
  objs,      \* the clusterPeer objects constructed so far, by identity 1..Len
  peers,     \* clusterPeers.peers: connection name -> clusterPeer identity
  ret,       \* what the latest clusterPeers / clusterPeer call returned
  removed,   \* names removed by removePeer and not added again since
  dial,      \* the clusterPeer.Dial in progress: position, receiver, arguments
  calls,     \* calls the latest clusterPeer.Dial made on its collaborators
  mu,        \* localSite.Mutex: 0 when free, else the goroutine holding it
  agent,     \* localSite.agent: 0 is nil, k > 0 the agent of the k-th SetAgent
  agentChan, \* localSite.agentChan, numbered likewise
  setter,    \* the goroutine calling localSite.SetAgent: position, arguments
  site,      \* the goroutines calling localSite.Dial: position, locals, calls
  recordingProxyEnabled, \* the recording-proxy policy the process is run
                         \* with; localSite.Dial does not read it
  cache,     \* hostCertificateCache: target address -> host certificate
  iter,      \* a pickPeer running beside the registration goroutine: position,
             \* keys visited, currentPeer, the map as it was when range began
  terminal   \* the TtyTerminal of the web client, its container, its xterm,
             \* the debounce timer and the screen-size requests sent

peerVars == <<objs, peers, ret, removed, dial, calls>>

siteVars == <<mu, agent, agentChan, setter, site, recordingProxyEnabled, cache>>

vars == <<objs, peers, ret, removed, dial, calls,
          mu, agent, agentChan, setter, site, recordingProxyEnabled, cache,
          iter, terminal>>

(* ----------------------------- clusterPeers ---------------------------- *)

\* time.Time.After
After(t, u) == t > u

\* every order in which "for _, peer := range p.peers" may visit the keys
Orders(S) ==
  { o \in [1 .. Cardinality(S) -> S] : \A i, j \in DOMAIN o : i # j => o[i] # o[j] }

\* pickPeer keeping the first peer visited, whatever its heart beat
pickPeerLoopFirst(order, currentPeer) ==
  IF currentPeer # NilPeer THEN currentPeer
  ELSE IF order = <<>> THEN NilPeer ELSE peers[Head(order)]

\* the loop of pickPeer over the keys in the order visited
RECURSIVE pickPeerLoop(_, _)
pickPeerLoop(order, currentPeer) ==
  IF order = <<>> THEN currentPeer
  ELSE LET peer == peers[Head(order)] IN
       pickPeerLoop(Tail(order),
         IF currentPeer = NilPeer
            \/ After(objs[peer].connInfo.lastHeartbeat,
                     objs[currentPeer].connInfo.lastHeartbeat)
         THEN peer ELSE currentPeer)

\* clusterPeers.pickPeer: the peer and the error it returns
pickPeer(order) ==
  LET currentPeer == pickPeerLoop(order, NilPeer) IN
  IF currentPeer = NilPeer
  THEN [peer |-> NilPeer, err |-> "NotFound"]
  ELSE [peer |-> currentPeer, err |-> "nil"]

\* newClusterPeer: NewProxyDialer, whose error is overwritten unread, then
\* auth.NewClient on dialer.Dial, then srv.newAccessPoint; on success a new
\* object with its own client and access point. With no dialer, taking
\* dialer.Dial may stop the goroutine with a nil dereference.
newClusterPeer(conn) ==
  /\ Len(objs) < MaxPeers
  /\ \E dialerOk, panics, cltOk, apOk \in BOOLEAN :
       LET r == [op |-> "newClusterPeer", peer |-> NilPeer,
                 dialerOk |-> dialerOk, reached |-> "auth.NewClient"] IN
       IF ~dialerOk /\ panics
       THEN /\ ret' = r @@ [err |-> "panic"]
            /\ UNCHANGED objs
       ELSE IF ~cltOk
       THEN /\ ret' = r @@ [err |-> "NewClient failed"]
            /\ UNCHANGED objs
       ELSE IF ~apOk
       THEN /\ ret' = [r EXCEPT !.reached = "srv.newAccessPoint"]
                        @@ [err |-> "newAccessPoint failed"]
            /\ UNCHANGED objs
       ELSE /\ objs' = Append(objs, [connInfo |-> conn,
                                     clt |-> Len(objs) + 1,
                                     accessPoint |-> Len(objs) + 1])
            /\ ret' = [r EXCEPT !.peer = Len(objs) + 1,
                                !.reached = "return"] @@ [err |-> "nil"]
  /\ UNCHANGED <<peers, removed, dial, calls, siteVars, iter, terminal>>

\* addPeer filing the peer under its proxy address
addPeerByProxyAddr(peer) ==
  LET name == objs[peer].connInfo.proxyAddr IN
  /\ peers' = [n \in DOMAIN peers \cup {name} |->
                 IF n = name THEN peer ELSE peers[n]]
  /\ removed' = removed \ {name}
  /\ ret' = [op |-> "addPeer", peer |-> peer, name |-> name]
  /\ UNCHANGED <<objs, dial, calls, siteVars, iter, terminal>>

\* p.peers[peer.connInfo.GetName()] = peer
addPeer(peer) ==
  LET name == objs[peer].connInfo.name IN
  /\ peers' = [n \in DOMAIN peers \cup {name} |->
                 IF n = name THEN peer ELSE peers[n]]
  /\ removed' = removed \ {name}
  /\ ret' = [op |-> "addPeer", peer |-> peer, name |-> name]
  /\ UNCHANGED <<objs, dial, calls, siteVars, iter, terminal>>

\* updatePeer building the peer anew instead of replacing its connInfo
updatePeerRebuild(conn) ==
  IF conn.name \notin DOMAIN peers
  THEN /\ ret' = [op |-> "updatePeer", conn |-> conn, ok |-> FALSE]
       /\ UNCHANGED <<objs, peers, removed, dial, calls, siteVars, iter, terminal>>
  ELSE /\ objs' = [objs EXCEPT ![peers[conn.name]] =
                     [connInfo |-> conn, clt |-> 0, accessPoint |-> 0]]
       /\ ret' = [op |-> "updatePeer", conn |-> conn, ok |-> TRUE]
       /\ UNCHANGED <<peers, removed, dial, calls, siteVars, iter, terminal>>

updatePeer(conn) ==
  IF conn.name \notin DOMAIN peers
  THEN /\ ret' = [op |-> "updatePeer", conn |-> conn, ok |-> FALSE]
       /\ UNCHANGED <<objs, peers, removed, dial, calls, siteVars, iter, terminal>>
  ELSE /\ objs' = [objs EXCEPT ![peers[conn.name]].connInfo = conn]
       /\ ret' = [op |-> "updatePeer", conn |-> conn, ok |-> TRUE]
       /\ UNCHANGED <<peers, removed, dial, calls, siteVars, iter, terminal>>

\* removePeer leaving the entry in the map
removePeerKeep(conn) ==
  /\ peers' = peers
  /\ removed' = removed \cup {conn.name}
  /\ ret' = [op |-> "removePeer", conn |-> conn]
  /\ UNCHANGED <<objs, dial, calls, siteVars, iter, terminal>>

removePeer(conn) ==
  /\ peers' = [n \in DOMAIN peers \ {conn.name} |-> peers[n]]
  /\ removed' = removed \cup {conn.name}
  /\ ret' = [op |-> "removePeer", conn |-> conn]
  /\ UNCHANGED <<objs, dial, calls, siteVars, iter, terminal>>

(* ----------------------------- clusterPeer ----------------------------- *)

\* GetStatus with the comparison including the threshold itself
clusterPeer_GetStatusInclusive(s, now) ==
  LET diff == now - objs[s].connInfo.lastHeartbeat IN
  IF diff >= ReverseTunnelOfflineThreshold
  THEN RemoteSiteStatusOffline
  ELSE RemoteSiteStatusOnline

\* clusterPeer.GetStatus at time now
clusterPeer_GetStatus(s, now) ==
  LET diff == now - objs[s].connInfo.lastHeartbeat IN
  IF diff > ReverseTunnelOfflineThreshold
  THEN RemoteSiteStatusOffline
  ELSE RemoteSiteStatusOnline

clusterPeer_GetLastConnected(s) == objs[s].connInfo.lastHeartbeat

clusterPeer_GetClient(s) == objs[s].clt

clusterPeer_CachingAccessPoint(s) == objs[s].accessPoint

(* ----------------------- clusterPeers delegation ----------------------- *)

PickPeer ==
  \E order \in Orders(DOMAIN peers) :
    /\ ret' = [op |-> "pickPeer"] @@ pickPeer(order)
    /\ UNCHANGED <<objs, peers, removed, dial, calls, siteVars, iter, terminal>>

\* clusterPeers.GetStatus handing the pick error to its caller
clusterPeers_GetStatusPropagate(now) ==
  \E order \in Orders(DOMAIN peers) :
    LET r == pickPeer(order) IN
    /\ ret' = [op |-> "GetStatus", peer |-> r.peer, now |-> now,
               status |-> IF r.err # "nil" THEN r.err
                          ELSE clusterPeer_GetStatus(r.peer, now)]
    /\ UNCHANGED <<objs, peers, removed, dial, calls, siteVars, iter, terminal>>

clusterPeers_GetStatus(now) ==
  \E order \in Orders(DOMAIN peers) :
    LET r == pickPeer(order) IN
    /\ ret' = [op |-> "GetStatus", peer |-> r.peer, now |-> now,
               status |-> IF r.err # "nil" THEN RemoteSiteStatusOffline
                          ELSE clusterPeer_GetStatus(r.peer, now)]
    /\ UNCHANGED <<objs, peers, removed, dial, calls, siteVars, iter, terminal>>

\* clusterPeers.GetLastConnected answering a late time when no peer is found
clusterPeers_GetLastConnectedLate ==
  \E order \in Orders(DOMAIN peers) :
    LET r == pickPeer(order) IN
    /\ ret' = [op |-> "GetLastConnected", peer |-> r.peer,
               time |-> IF r.err # "nil" THEN MaxTime
                        ELSE clusterPeer_GetLastConnected(r.peer)]
    /\ UNCHANGED <<objs, peers, removed, dial, calls, siteVars, iter, terminal>>

clusterPeers_GetLastConnected ==
  \E order \in Orders(DOMAIN peers) :
    LET r == pickPeer(order) IN
    /\ ret' = [op |-> "GetLastConnected", peer |-> r.peer,
               time |-> IF r.err # "nil" THEN 0
                        ELSE clusterPeer_GetLastConnected(r.peer)]
    /\ UNCHANGED <<objs, peers, removed, dial, calls, siteVars, iter, terminal>>

clusterPeers_GetClient ==
  \E order \in Orders(DOMAIN peers) :
    LET r == pickPeer(order) IN
    /\ ret' = [op |-> "GetClient", peer |-> r.peer, err |-> r.err,
               clt |-> IF r.err # "nil" THEN 0
                       ELSE clusterPeer_GetClient(r.peer)]
    /\ UNCHANGED <<objs, peers, removed, dial, calls, siteVars, iter, terminal>>

clusterPeers_CachingAccessPoint ==
  \E order \in Orders(DOMAIN peers) :
    LET r == pickPeer(order) IN
    /\ ret' = [op |-> "CachingAccessPoint", peer |-> r.peer, err |-> r.err,
               accessPoint |-> IF r.err # "nil" THEN 0
                               ELSE clusterPeer_CachingAccessPoint(r.peer)]
    /\ UNCHANGED <<objs, peers, removed, dial, calls, siteVars, iter, terminal>>

(* --------------------------- clusterPeer.Dial -------------------------- *)

\* the nil net.Conn
NilConn == [nil |-> TRUE]

NoDial == [pc |-> "idle"]

\* the subsystem name with its two arguments exchanged
SubsystemNameSwapped(to, clusterName) == "proxy:" \o clusterName \o "@" \o to

\* fmt.Sprintf("proxy:%v@%v", to, clusterName)
SubsystemName(to, clusterName) == "proxy:" \o to \o "@" \o clusterName

\* the deferred calls, run last registered first
RECURSIVE RunDefers(_)
RunDefers(defers) ==
  IF defers = <<>> THEN <<>>
  ELSE <<[fn |-> defers[Len(defers)], arg |-> "", ok |-> TRUE]>>
       \o RunDefers(SubSeq(defers, 1, Len(defers) - 1))

\* a return statement of clusterPeer.Dial: the deferred calls run, then the
\* caller has the results
Dial_return(made, conn, err) ==
  /\ calls' = calls \o made \o RunDefers(dial.defers)
  /\ dial' = [dial EXCEPT !.pc = "returned", !.conn = conn, !.err = err]
  /\ ret' = [op |-> "clusterPeer.Dial", peer |-> dial.s, err |-> err,
             conn |-> conn]

\* entry of clusterPeer.Dial on receiver s
Dial_enter(s, from, to) ==
  /\ dial' = [pc |-> "DialWithDeadline", s |-> s, from |-> from, to |-> to,
              defers |-> <<>>, conn |-> NilConn, err |-> "pending"]
  /\ calls' = <<>>

\* a direct call of clusterPeer.Dial, as made by the peer's own client
clusterPeer_Dial(s, from, to) ==
  /\ dial.pc \in {"idle", "returned"}
  /\ Dial_enter(s, from, to)
  /\ UNCHANGED <<objs, peers, removed, ret, siteVars, iter, terminal>>

\* clusterPeers.Dial
clusterPeers_Dial(from, to) ==
  /\ dial.pc \in {"idle", "returned"}
  /\ \E order \in Orders(DOMAIN peers) :
       LET r == pickPeer(order) IN
       IF r.err # "nil"
       THEN /\ ret' = [op |-> "clusterPeers.Dial", peer |-> NilPeer,
                       err |-> r.err, conn |-> NilConn]
            /\ UNCHANGED <<dial, calls>>
       ELSE /\ Dial_enter(r.peer, from, to)
            /\ ret' = [op |-> "clusterPeers.Dial", peer |-> r.peer,
                       err |-> "pending", conn |-> NilConn]
  /\ UNCHANGED <<objs, peers, removed, siteVars, iter, terminal>>

\* the connect step without "defer client.Close()"
Dial_DialWithDeadlineNoDefer(ok) ==
  /\ dial.pc = "DialWithDeadline"
  /\ LET call == [fn |-> "proxy.DialWithDeadline",
                  arg |-> objs[dial.s].connInfo.proxyAddr, ok |-> ok] IN
     IF ok
     THEN /\ calls' = Append(calls, call)
          /\ dial' = [dial EXCEPT !.pc = "NewSession"]
          /\ UNCHANGED ret
     ELSE Dial_return(<<call>>, NilConn, "connect failed")
  /\ UNCHANGED <<objs, peers, removed, siteVars, iter, terminal>>

\* client, err := proxy.DialWithDeadline(...); defer client.Close()
Dial_DialWithDeadline(ok) ==
  /\ dial.pc = "DialWithDeadline"
  /\ LET call == [fn |-> "proxy.DialWithDeadline",
                  arg |-> objs[dial.s].connInfo.proxyAddr, ok |-> ok] IN
     IF ok
     THEN /\ calls' = Append(calls, call)
          /\ dial' = [dial EXCEPT !.pc = "NewSession",
                                  !.defers = Append(@, "client.Close")]
          /\ UNCHANGED ret
     ELSE Dial_return(<<call>>, NilConn, "connect failed")
  /\ UNCHANGED <<objs, peers, removed, siteVars, iter, terminal>>

\* se, err := client.NewSession(); defer se.Close()
Dial_NewSession(ok) ==
  /\ dial.pc = "NewSession"
  /\ LET call == [fn |-> "client.NewSession", arg |-> "", ok |-> ok] IN
     IF ok
     THEN /\ calls' = Append(calls, call)
          /\ dial' = [dial EXCEPT !.pc = "StdinPipe",
                                  !.defers = Append(@, "se.Close")]
          /\ UNCHANGED ret
     ELSE Dial_return(<<call>>, NilConn, "session failed")
  /\ UNCHANGED <<objs, peers, removed, siteVars, iter, terminal>>

\* writer, err := se.StdinPipe()
Dial_StdinPipe(ok) ==
  /\ dial.pc = "StdinPipe"
  /\ LET call == [fn |-> "se.StdinPipe", arg |-> "", ok |-> ok] IN
     IF ok
     THEN /\ calls' = Append(calls, call)
          /\ dial' = [dial EXCEPT !.pc = "StdoutPipe"]
          /\ UNCHANGED ret
     ELSE Dial_return(<<call>>, NilConn, "stdin pipe failed")
  /\ UNCHANGED <<objs, peers, removed, siteVars, iter, terminal>>

\* reader, err := se.StdoutPipe()
Dial_StdoutPipe(ok) ==
  /\ dial.pc = "StdoutPipe"
  /\ LET call == [fn |-> "se.StdoutPipe", arg |-> "", ok |-> ok] IN
     IF ok
     THEN /\ calls' = Append(calls, call)
          /\ dial' = [dial EXCEPT !.pc = "RequestSubsystem"]
          /\ UNCHANGED ret
     ELSE Dial_return(<<call>>, NilConn, "stdout pipe failed")
  /\ UNCHANGED <<objs, peers, removed, siteVars, iter, terminal>>

\* se.RequestSubsystem(...), then return utils.NewPipeNetConn(...), nil
Dial_RequestSubsystem(ok) ==
  /\ dial.pc = "RequestSubsystem"
  /\ LET call == [fn |-> "se.RequestSubsystem",
                  arg |-> SubsystemName(dial.to,
                                        objs[dial.s].connInfo.clusterName),
                  ok |-> ok] IN
     IF ok
     THEN Dial_return(<<call>>,
                      [reader |-> "stdout", writer |-> "stdin",
                       closer |-> "se", from |-> dial.from, to |-> dial.to],
                      "nil")
     ELSE Dial_return(<<call>>, NilConn, "subsystem failed")
  /\ UNCHANGED <<objs, peers, removed, siteVars, iter, terminal>>

(* ------------------- pickPeer beside concurrent writers ---------------- *)

NoIter == [pc |-> "idle", visited |-> {}, currentPeer |-> NilPeer,
           seen |-> <<>>, result |-> [peer |-> NilPeer, err |-> "nil"]]

\* var currentPeer *clusterPeer; for _, peer := range p.peers {
pickPeer_range ==
  /\ iter.pc \in {"idle", "done"}
  /\ iter' = [NoIter EXCEPT !.pc = "range", !.seen = peers]
  /\ UNCHANGED <<peerVars, siteVars, terminal>>

\* one turn of the loop, on a key of the map as it is now that the loop
\* has not visited; nothing holds the map still between two turns
pickPeer_next ==
  /\ iter.pc = "range"
  /\ \E n \in DOMAIN peers \ iter.visited :
       LET peer == peers[n] IN
       iter' = [iter EXCEPT
                  !.visited = @ \cup {n},
                  !.currentPeer =
                     IF iter.currentPeer = NilPeer
                        \/ After(objs[peer].connInfo.lastHeartbeat,
                                 objs[iter.currentPeer].connInfo.lastHeartbeat)
                     THEN peer ELSE iter.currentPeer]
  /\ UNCHANGED <<peerVars, siteVars, terminal>>

\* the loop ends; pickPeer returns currentPeer or NotFound
pickPeer_end ==
  /\ iter.pc = "range"
  /\ DOMAIN peers \ iter.visited = {}
  /\ iter' = [iter EXCEPT
                !.pc = "done",
                !.result = IF iter.currentPeer = NilPeer
                           THEN [peer |-> NilPeer, err |-> "NotFound"]
                           ELSE [peer |-> iter.currentPeer, err |-> "nil"]]
  /\ UNCHANGED <<peerVars, siteVars, terminal>>

\* the map was written during the range: the runtime may stop the process
\* with "concurrent map iteration and map write"
pickPeer_fatal ==
  /\ iter.pc = "range"
  /\ peers # iter.seen
  /\ iter' = [iter EXCEPT !.pc = "fatal"]
  /\ UNCHANGED <<peerVars, siteVars, terminal>>

(* ------------------------------ localSite ------------------------------ *)

Dialers == 1 .. NumDialers

\* host certificates the signer may issue
Certs == {"cert-1", "cert-2"}

NoCert == ""

\* hostCertificateCache.get storing nothing after a successful fetch
hostCertificateCache_getNoStore(addr, fetched, ok) ==
  IF addr \in DOMAIN cache
  THEN [cert |-> cache[addr], err |-> "nil", signs |-> 0, cache |-> cache]
  ELSE IF ok
  THEN [cert |-> fetched, err |-> "nil", signs |-> 1, cache |-> cache]
  ELSE [cert |-> NoCert, err |-> "get failed", signs |-> 1, cache |-> cache]

\* hostCertificateCache.get(addr): the cached certificate, or else one
\* signing request whose certificate is stored when it succeeds; fetched and
\* ok are the signer's answer
hostCertificateCache_get(addr, fetched, ok) ==
  IF addr \in DOMAIN cache
  THEN [cert |-> cache[addr], err |-> "nil", signs |-> 0, cache |-> cache]
  ELSE IF ok
  THEN [cert |-> fetched, err |-> "nil", signs |-> 1,
        cache |-> [a \in DOMAIN cache \cup {addr} |->
                     IF a = addr THEN fetched ELSE cache[a]]]
  ELSE [cert |-> NoCert, err |-> "get failed", signs |-> 1, cache |-> cache]

\* a goroutine that is not inside localSite.Dial
NoSiteDial ==
  [pc |-> "idle", to |-> "", recordingProxy |-> FALSE, gets |-> 0,
   forwarders |-> 0, forwarderDials |-> 0, netDials |-> 0, agentAtLock |-> 0,
   agentUsed |-> 0, unlocks |-> 0, conn |-> NilConn, err |-> "nil",
   signs |-> 0, cert |-> NoCert]

\* a return of localSite.Dial that leaves the mutex locked
localSite_Dial_returnNoUnlock(g, d, conn, err) ==
  /\ site' = [site EXCEPT ![g] = [d EXCEPT !.pc = "returned",
                                           !.conn = conn, !.err = err]]
  /\ mu' = mu

\* the deferred s.Unlock() and the return of localSite.Dial
localSite_Dial_return(g, d, conn, err) ==
  /\ site' = [site EXCEPT ![g] = [d EXCEPT !.pc = "returned",
                                           !.unlocks = @ + 1,
                                           !.conn = conn, !.err = err]]
  /\ mu' = 0

\* a goroutine calls localSite.Dial(from, to) and reaches s.Lock()
localSite_Dial_enter(g, from, to) ==
  /\ site[g].pc \in {"idle", "returned"}
  /\ site' = [site EXCEPT ![g] = [NoSiteDial EXCEPT !.pc = "Lock", !.to = to]]
  /\ UNCHANGED <<mu, agent, agentChan, setter, recordingProxyEnabled, cache,
                 peerVars, iter, terminal>>

\* s.Lock() entered without waiting for the holder
localSite_Dial_LockNoWait(g) ==
  /\ site[g].pc = "Lock"
  /\ site' = [site EXCEPT ![g] = [@ EXCEPT !.pc = "get",
                                           !.recordingProxy = TRUE,
                                           !.agentAtLock = agent]]
  /\ mu' = g
  /\ UNCHANGED <<agent, agentChan, setter, recordingProxyEnabled, cache, peerVars, iter, terminal>>

\* s.Lock() returns; recordingProxy := true; the branch on it
localSite_Dial_Lock(g) ==
  /\ site[g].pc = "Lock"
  /\ mu = 0
  /\ LET d == [site[g] EXCEPT !.recordingProxy = TRUE,
                              !.agentAtLock = agent] IN
     IF d.recordingProxy
     THEN /\ site' = [site EXCEPT ![g] = [d EXCEPT !.pc = "get"]]
          /\ mu' = g
     ELSE \E ok \in BOOLEAN :
            localSite_Dial_return(g, [d EXCEPT !.netDials = @ + 1],
              IF ok THEN [net |-> d.to] ELSE NilConn,
              IF ok THEN "nil" ELSE "net.Dial failed")
  /\ UNCHANGED <<agent, agentChan, setter, recordingProxyEnabled, cache, peerVars, iter, terminal>>

\* hostCertificate, err := s.hostCertificateCache.get(to.String())
localSite_Dial_get(g, ok) ==
  /\ site[g].pc = "get"
  /\ \E fetched \in Certs :
       LET r == hostCertificateCache_get(site[g].to, fetched, ok)
           d == [site[g] EXCEPT !.gets = @ + 1, !.signs = @ + r.signs,
                                !.cert = r.cert] IN
       /\ cache' = r.cache
       /\ IF r.err = "nil"
          THEN /\ site' = [site EXCEPT ![g] = [d EXCEPT !.pc = "forward.New"]]
               /\ UNCHANGED mu
          ELSE localSite_Dial_return(g, d, NilConn, r.err)
  /\ UNCHANGED <<agent, agentChan, setter, recordingProxyEnabled, peerVars, iter, terminal>>

\* forward.New failing and Dial falling back to a direct network dial
localSite_Dial_NewFallback(g, ok) ==
  /\ site[g].pc = "forward.New"
  /\ LET d == [site[g] EXCEPT !.forwarders = @ + 1, !.agentUsed = agent] IN
     IF ok
     THEN /\ site' = [site EXCEPT ![g] = [d EXCEPT !.pc = "remoteServer.Dial"]]
          /\ UNCHANGED mu
     ELSE localSite_Dial_return(g, [d EXCEPT !.netDials = @ + 1],
                                [net |-> d.to], "nil")
  /\ UNCHANGED <<agent, agentChan, setter, recordingProxyEnabled, cache, peerVars, iter, terminal>>

\* remoteServer, err := forward.New(s.client, s.agent, from.String(), cert)
localSite_Dial_New(g, ok) ==
  /\ site[g].pc = "forward.New"
  /\ LET d == [site[g] EXCEPT !.forwarders = @ + 1, !.agentUsed = agent] IN
     IF ok
     THEN /\ site' = [site EXCEPT ![g] = [d EXCEPT !.pc = "remoteServer.Dial"]]
          /\ UNCHANGED mu
     ELSE localSite_Dial_return(g, d, NilConn, "forward.New failed")
  /\ UNCHANGED <<agent, agentChan, setter, recordingProxyEnabled, cache, peerVars, iter, terminal>>

\* conn, err := remoteServer.Dial(to.String()); return
localSite_Dial_remoteDial(g, ok) ==
  /\ site[g].pc = "remoteServer.Dial"
  /\ LET d == [site[g] EXCEPT !.forwarderDials = @ + 1] IN
     IF ok
     THEN localSite_Dial_return(g, d, [forwarded |-> d.to], "nil")
     ELSE localSite_Dial_return(g, d, NilConn, "remoteServer.Dial failed")
  /\ UNCHANGED <<agent, agentChan, setter, recordingProxyEnabled, cache, peerVars, iter, terminal>>

\* SetAgent, first assignment: s.agent = a
SetAgent_agent ==
  /\ setter.pc = "idle"
  /\ setter.n < MaxSetAgent
  /\ agent' = setter.n + 1
  /\ setter' = [pc |-> "agentChan", n |-> setter.n + 1]
  /\ UNCHANGED <<mu, agentChan, site, recordingProxyEnabled, cache, peerVars, iter, terminal>>

\* SetAgent, second assignment: s.agentChan = ch
SetAgent_agentChan ==
  /\ setter.pc = "agentChan"
  /\ agentChan' = setter.n
  /\ setter' = [setter EXCEPT !.pc = "idle"]
  /\ UNCHANGED <<mu, agent, site, recordingProxyEnabled, cache, peerVars, iter, terminal>>

\* localSite.GetStatus
localSite_GetStatus ==
  /\ ret' = [op |-> "localSite.GetStatus", status |-> RemoteSiteStatusOnline]
  /\ UNCHANGED <<objs, peers, removed, dial, calls, siteVars, iter, terminal>>

\* localSite.GetLastConnected at time now
localSite_GetLastConnected(now) ==
  /\ ret' = [op |-> "localSite.GetLastConnected", now |-> now, time |-> now]
  /\ UNCHANGED <<objs, peers, removed, dial, calls, siteVars, iter, terminal>>

(* ----------------------------- TtyTerminal ----------------------------- *)

\* this.cols / this.rows before the first resize
Undefined == 0

\* the quotient _getDimensions computes when the measuring row has no
\* size: Infinity or NaN, neither of which is < 5 and both of which
\* lodash's isNumber accepts
NonFinite == -1

\* sizes of the container, in character cells (width, height)
ElSizes == {<<3, 3>>, <<80, 24>>, <<120, 40>>}

\* sizes other participants of the session announce
SessionSizes == {<<80, 24>>, <<100, 30>>}

\* the terminal after the constructor
NewTerminal ==
  [state |-> "constructed", cols |-> Undefined, rows |-> Undefined,
   el |-> <<80, 24>>, listening |-> FALSE, timer |-> 0, events |-> 0,
   xterm |-> [state |-> "null", cols |-> 0, rows |-> 0],
   puts |-> <<>>]

isNumber(v) == v # Undefined

\* _getDimensions: the container's size over the size of a row appended to
\* its .terminal element; once the container is emptied the row is attached
\* nowhere and measures 0 by 0
getDimensions(t) ==
  IF t.state = "open"
  THEN [cols |-> t.el[1], rows |-> t.el[2]]
  ELSE [cols |-> NonFinite, rows |-> NonFinite]

\* resize(cols, rows); term.resize on an xterm that was destroyed, or with a
\* non-finite size, may throw, and the catch then resets the xterm
resize(t, cols, rows, throws) ==
  LET dim == getDimensions(t)
      c == IF ~isNumber(cols) \/ ~isNumber(rows) THEN dim.cols ELSE cols
      r == IF ~isNumber(cols) \/ ~isNumber(rows) THEN dim.rows ELSE rows
  IN IF c = t.cols /\ r = t.rows THEN t
     ELSE [t EXCEPT !.cols = c, !.rows = r,
                    !.xterm = IF throws /\ t.xterm.state # "open" THEN @
                              ELSE [@ EXCEPT !.cols = c, !.rows = r]]

\* w < 5 ? 5 : w
AtLeast5(w) == IF w = NonFinite THEN w ELSE IF w < 5 THEN 5 ELSE w

\* open(): new xterm of 15 by 5, resized to the container; subscriptions to
\* tty, ttyEvents and the window's resize event
TtyTerminal_open ==
  /\ terminal.state = "constructed"
  /\ terminal' =
       resize([terminal EXCEPT !.state = "open", !.listening = TRUE,
                               !.xterm = [state |-> "open", cols |-> 15,
                                          rows |-> 5]],
              terminal.cols, terminal.rows, FALSE)
  /\ UNCHANGED <<peerVars, siteVars, iter>>

\* the browser window is resized: the container takes a new size and, when
\* the listener is registered, debouncedResize restarts its timer
window_resize(size) ==
  /\ terminal.events < MaxResizeEvents
  /\ size # terminal.el
  /\ terminal' = [terminal EXCEPT
                    !.el = size, !.events = @ + 1,
                    !.timer = IF terminal.listening
                              THEN WINDOW_RESIZE_DEBOUNCE_DELAY ELSE @]
  /\ UNCHANGED <<peerVars, siteVars, iter>>

\* 100 ms pass and the debounce timer has more to wait
clock_tick ==
  /\ terminal.timer > 1
  /\ terminal' = [terminal EXCEPT !.timer = @ - 1]
  /\ UNCHANGED <<peerVars, siteVars, iter>>

\* the debounce delay has passed: _requestResize
requestResize(throws) ==
  /\ terminal.timer = 1
  /\ LET dim == getDimensions(terminal)
         w == AtLeast5(dim.cols)
         h == AtLeast5(dim.rows)
         t == resize([terminal EXCEPT !.timer = 0], w, h, throws)
     IN terminal' = [t EXCEPT !.puts = Append(@, [w |-> w, h |-> h])]
  /\ UNCHANGED <<peerVars, siteVars, iter>>

\* tty or ttyEvents emits 'resize' {h, w}
tty_resize(size) ==
  /\ terminal.state = "open"
  /\ terminal' = resize(terminal, size[1], size[2], FALSE)
  /\ UNCHANGED <<peerVars, siteVars, iter>>

\* destroy(): the window listener is removed, tty and ttyEvents are
\* disconnected, the xterm is destroyed, the container is emptied; the timer
\* of debouncedResize is left as it is
TtyTerminal_destroy ==
  /\ terminal.state \in {"constructed", "open"}
  /\ terminal' = [terminal EXCEPT
                    !.state = "destroyed", !.listening = FALSE,
                    !.xterm = IF @.state = "open"
                              THEN [@ EXCEPT !.state = "destroyed"] ELSE @]
  /\ UNCHANGED <<peerVars, siteVars, iter>>

(* --------------------------- specification ----------------------------- *)

Init ==
  /\ objs = <<>>
  /\ peers = <<>>
  /\ ret = [op |-> "none"]
  /\ removed = {}
  /\ dial = NoDial
  /\ calls = <<>>
  /\ mu = 0
  /\ agent = 0
  /\ agentChan = 0
  /\ setter = [pc |-> "idle", n |-> 0]
  /\ site = [g \in Dialers |-> NoSiteDial]
  /\ recordingProxyEnabled \in BOOLEAN
  /\ cache = <<>>
  /\ iter = NoIter
  /\ terminal = NewTerminal

Next ==
  \/ \E conn \in HeartbeatConns : newClusterPeer(conn)
  \/ \E peer \in 1 .. Len(objs) : addPeer(peer)
  \/ \E conn \in HeartbeatConns : updatePeer(conn)
  \/ \E conn \in HeartbeatConns : removePeer(conn)
  \/ PickPeer
  \/ \E now \in Times : clusterPeers_GetStatus(now)
  \/ clusterPeers_GetLastConnected
  \/ clusterPeers_GetClient
  \/ clusterPeers_CachingAccessPoint
  \/ localSite_GetStatus
  \/ \E now \in Times : localSite_GetLastConnected(now)

Spec == Init /\ [][Next]_vars

\* the registry together with dials through a peer
NextDial ==
  \/ \E conn \in DialConns : newClusterPeer(conn)
  \/ \E peer \in 1 .. Len(objs) : addPeer(peer)
  \/ \E conn \in DialConns : updatePeer(conn)
  \/ \E conn \in DialConns : removePeer(conn)
  \/ PickPeer
  \/ \E now \in Times : clusterPeers_GetStatus(now)
  \/ clusterPeers_GetLastConnected
  \/ clusterPeers_GetClient
  \/ clusterPeers_CachingAccessPoint
  \/ \E from \in Sources, to \in Targets : clusterPeers_Dial(from, to)
  \/ \E s \in 1 .. Len(objs), from \in Sources, to \in Targets :
       clusterPeer_Dial(s, from, to)
  \/ \E ok \in BOOLEAN : Dial_DialWithDeadline(ok)
  \/ \E ok \in BOOLEAN : Dial_NewSession(ok)
  \/ \E ok \in BOOLEAN : Dial_StdinPipe(ok)
  \/ \E ok \in BOOLEAN : Dial_StdoutPipe(ok)
  \/ \E ok \in BOOLEAN : Dial_RequestSubsystem(ok)

SpecDial == Init /\ [][NextDial]_vars

\* a registration goroutine writing the registry while a dialing goroutine
\* runs pickPeer
NextConc ==
  \/ \E conn \in ConcConns : newClusterPeer(conn)
  \/ \E peer \in 1 .. Len(objs) : addPeer(peer)
  \/ \E conn \in ConcConns : updatePeer(conn)
  \/ \E conn \in ConcConns : removePeer(conn)
  \/ pickPeer_range
  \/ pickPeer_next
  \/ pickPeer_end
  \/ pickPeer_fatal

SpecConc == Init /\ [][NextConc]_vars

\* the local site: concurrent Dial calls and SetAgent
NextSite ==
  \/ \E g \in Dialers, from \in Sources, to \in Targets :
       localSite_Dial_enter(g, from, to)
  \/ \E g \in Dialers : localSite_Dial_Lock(g)
  \/ \E g \in Dialers, ok \in BOOLEAN : localSite_Dial_get(g, ok)
  \/ \E g \in Dialers, ok \in BOOLEAN : localSite_Dial_New(g, ok)
  \/ \E g \in Dialers, ok \in BOOLEAN : localSite_Dial_remoteDial(g, ok)
  \/ SetAgent_agent
  \/ SetAgent_agentChan

SpecSite == Init /\ [][NextSite]_vars

\* the local site: concurrent Dial calls alone
NextLocal ==
  \/ \E g \in Dialers, from \in Sources, to \in Targets :
       localSite_Dial_enter(g, from, to)
  \/ \E g \in Dialers : localSite_Dial_Lock(g)
  \/ \E g \in Dialers, ok \in BOOLEAN : localSite_Dial_get(g, ok)
  \/ \E g \in Dialers, ok \in BOOLEAN : localSite_Dial_New(g, ok)
  \/ \E g \in Dialers, ok \in BOOLEAN : localSite_Dial_remoteDial(g, ok)

SpecLocal == Init /\ [][NextLocal]_vars

\* the same, where the cache lookup and the forwarder calls return and
\* sync.Mutex hands the lock to a goroutine that keeps waiting for it
FairLocal ==
  \A g \in Dialers :
    /\ SF_vars(localSite_Dial_Lock(g))
    /\ WF_vars(\E ok \in BOOLEAN : localSite_Dial_get(g, ok))
    /\ WF_vars(\E ok \in BOOLEAN : localSite_Dial_New(g, ok))
    /\ WF_vars(\E ok \in BOOLEAN : localSite_Dial_remoteDial(g, ok))

SpecLocalFair == Init /\ [][NextLocal]_vars /\ FairLocal

\* the life of one TtyTerminal in the browser
NextTerm ==
  \/ TtyTerminal_open
  \/ \E size \in ElSizes : window_resize(size)
  \/ clock_tick
  \/ \E throws \in BOOLEAN : requestResize(throws)
  \/ \E size \in SessionSizes : tty_resize(size)
  \/ TtyTerminal_destroy

SpecTerm == Init /\ [][NextTerm]_vars

(* ------------------------------ properties ----------------------------- *)

LastHeartbeat(s) == objs[s].connInfo.lastHeartbeat

\* the operations of clusterPeers that begin with a pickPeer
PickingOps ==
  {"pickPeer", "GetStatus", "GetLastConnected", "GetClient",
   "CachingAccessPoint", "clusterPeers.Dial"}

\* C1: on a non-empty map pickPeer returns a peer that is in the map and
\* whose heart beat is greater than or equal to that of every peer in the map
C1_PickPeerFreshest ==
  (ret.op = "pickPeer" /\ DOMAIN peers # {}) =>
     /\ ret.err = "nil"
     /\ \E n \in DOMAIN peers : peers[n] = ret.peer
     /\ \A n \in DOMAIN peers : LastHeartbeat(ret.peer) >= LastHeartbeat(peers[n])

\* pickPeer has answered with the fresher of two registered peers
C1_Witness ==
  /\ ret.op = "pickPeer"
  /\ Cardinality(DOMAIN peers) = 2
  /\ \E n \in DOMAIN peers :
       /\ peers[n] # ret.peer
       /\ LastHeartbeat(peers[n]) < LastHeartbeat(ret.peer)

\* C2: on an empty map pickPeer, GetClient, CachingAccessPoint and Dial fail
\* with NotFound, Dial enters no clusterPeer.Dial and makes no call,
\* GetStatus answers "offline"; GetStatus always answers online or offline
C2_EmptyMapState ==
  /\ (DOMAIN peers = {} /\ ret.op \in {"pickPeer", "GetClient",
                                       "CachingAccessPoint"}) =>
        (ret.err = "NotFound" /\ ret.peer = NilPeer)
  /\ (DOMAIN peers = {} /\ ret.op = "clusterPeers.Dial") =>
        (ret.err = "NotFound" /\ ret.peer = NilPeer /\ ret.conn = NilConn)
  /\ (DOMAIN peers = {} /\ ret.op = "GetStatus") =>
        ret.status = RemoteSiteStatusOffline
  /\ ret.op = "GetStatus" => ret.status \in {"online", "offline"}

C2_EmptyMapStep ==
  (DOMAIN peers = {} /\ ret' # ret /\ ret'.op = "clusterPeers.Dial") =>
     (dial' = dial /\ calls' = calls)

C2_EmptyMap == []C2_EmptyMapState /\ [][C2_EmptyMapStep]_vars

\* clusterPeers.Dial has failed on a map emptied by removePeer
C2_Witness ==
  /\ DOMAIN peers = {}
  /\ removed # {}
  /\ ret.op = "clusterPeers.Dial"
  /\ ret.err = "NotFound"

\* C3: updatePeer with an unknown name returns false and changes nothing;
\* with a known name it returns true and replaces that peer's connInfo only
C3_UpdatePeerStep ==
  ret'.op = "updatePeer" =>
    LET conn == ret'.conn IN
    IF conn.name \notin DOMAIN peers
    THEN ret'.ok = FALSE /\ peers' = peers /\ objs' = objs
    ELSE /\ ret'.ok = TRUE
         /\ peers' = peers
         /\ Len(objs') = Len(objs)
         /\ \A i \in 1 .. Len(objs) :
              IF i = peers[conn.name]
              THEN /\ objs'[i].connInfo = conn
                   /\ objs'[i].clt = objs[i].clt
                   /\ objs'[i].accessPoint = objs[i].accessPoint
              ELSE objs'[i] = objs[i]

C3_UpdatePeerFrame == [][C3_UpdatePeerStep]_vars

\* updatePeer has replaced the connInfo of one of two registered peers
C3_Witness ==
  /\ ret.op = "updatePeer"
  /\ ret.ok
  /\ Cardinality(DOMAIN peers) = 2
  /\ objs[peers[ret.conn.name]].connInfo = ret.conn
  /\ ret.conn.lastHeartbeat > 0

\* C4: no pick selects a peer whose name was removed and not added again;
\* removePeer of a name that is not in the map changes nothing
C4_RemovedState ==
  /\ removed \cap DOMAIN peers = {}
  /\ (ret.op \in PickingOps /\ ret.peer # NilPeer) =>
        objs[ret.peer].connInfo.name \notin removed

C4_RemoveStep ==
  (ret'.op = "removePeer" /\ ret'.conn.name \notin DOMAIN peers) =>
     (peers' = peers /\ objs' = objs)

C4_RemovedNeverPicked == []C4_RemovedState /\ [][C4_RemoveStep]_vars

\* a pick has answered while a removed name is still out of the map
C4_Witness ==
  /\ removed # {}
  /\ ret.op = "pickPeer"
  /\ ret.peer # NilPeer
  /\ \E s \in 1 .. Len(objs) : objs[s].connInfo.name \in removed

\* C5: clusterPeer.GetStatus is "offline" exactly when now - LastHeartbeat
\* is greater than the threshold, and "online" otherwise
C5_StatusThreshold ==
  (ret.op = "GetStatus" /\ ret.peer # NilPeer) =>
     LET diff == ret.now - LastHeartbeat(ret.peer) IN
     /\ (ret.status = "offline") <=> (diff > ReverseTunnelOfflineThreshold)
     /\ (ret.status = "online") <=> (diff <= ReverseTunnelOfflineThreshold)

\* GetStatus has answered "online" at a difference equal to the threshold
C5_Witness ==
  /\ ret.op = "GetStatus"
  /\ ret.peer # NilPeer
  /\ ret.now - LastHeartbeat(ret.peer) = ReverseTunnelOfflineThreshold
  /\ ret.status = "online"


\* how many times the latest clusterPeer.Dial called fn
Count(fn) == Cardinality({ i \in DOMAIN calls : calls[i].fn = fn })

\* how many of those calls succeeded
CountOk(fn) == Cardinality({ i \in DOMAIN calls : calls[i].fn = fn /\ calls[i].ok })

\* the steps of clusterPeer.Dial, in the order of the source
DialSteps ==
  <<"proxy.DialWithDeadline", "client.NewSession", "se.StdinPipe",
    "se.StdoutPipe", "se.RequestSubsystem">>

\* the calls of the latest Dial that are steps, not deferred closes
StepCalls == SelectSeq(calls, LAMBDA c : c.fn \notin {"client.Close", "se.Close"})

\* C6: when clusterPeer.Dial returns an error, the connection is nil, every
\* client it opened was closed exactly once, every session it opened was
\* closed, and a failed connect opens no session
C6_FailureReleasesAll ==
  (dial.pc = "returned" /\ dial.err # "nil") =>
     /\ dial.conn = NilConn
     /\ CountOk("proxy.DialWithDeadline") <= 1
     /\ Count("client.Close") = CountOk("proxy.DialWithDeadline")
     /\ Count("se.Close") = CountOk("client.NewSession")
     /\ CountOk("proxy.DialWithDeadline") = 0 => Count("client.NewSession") = 0

\* a Dial has failed at the subsystem request, with a client and a session open
C6_Witness ==
  /\ dial.pc = "returned"
  /\ dial.err = "subsystem failed"
  /\ CountOk("proxy.DialWithDeadline") = 1
  /\ CountOk("client.NewSession") = 1
  /\ Count("client.Close") = 1

\* C7: when clusterPeer.Dial returns a connection, it has closed neither the
\* SSH client nor the session
C7_SuccessKeepsOpen ==
  (dial.pc = "returned" /\ dial.err = "nil") =>
     (Count("client.Close") = 0 /\ Count("se.Close") = 0)

\* C8: the steps run in the order of DialSteps, each only after the earlier
\* ones succeeded; at most one subsystem request is sent, named
\* "proxy:" + to + "@" + cluster name; a connection is returned only after
\* the request succeeded
C8_OrderState ==
  /\ Len(StepCalls) <= Len(DialSteps)
  /\ \A i \in DOMAIN StepCalls :
       /\ StepCalls[i].fn = DialSteps[i]
       /\ i < Len(StepCalls) => StepCalls[i].ok
  /\ Count("se.RequestSubsystem") <= 1
  /\ (dial.pc = "returned" /\ dial.conn # NilConn) =>
        CountOk("se.RequestSubsystem") = 1

C8_RequestStep ==
  (dial.pc = "RequestSubsystem" /\ dial'.pc = "returned") =>
     LET sent == StepCalls'[Len(StepCalls')]
         cluster == objs[dial.s].connInfo.clusterName IN
     /\ sent.fn = "se.RequestSubsystem"
     /\ sent.arg = "proxy:" \o dial.to \o "@" \o cluster
     /\ (dial.to = "10.0.0.5:22" /\ cluster = "prod") =>
           sent.arg = "proxy:10.0.0.5:22@prod"

C8_ConnectStep ==
  (dial.pc = "DialWithDeadline" /\ dial'.pc # "DialWithDeadline") =>
     /\ Len(StepCalls') = 1
     /\ StepCalls'[1].arg = objs[dial.s].connInfo.proxyAddr

C8_StepOrder ==
  []C8_OrderState /\ [][C8_RequestStep /\ C8_ConnectStep]_vars

\* a Dial to 10.0.0.5:22 has returned a connection after sending
\* proxy:10.0.0.5:22@prod as its fifth step
C8_Witness ==
  /\ dial.pc = "returned"
  /\ dial.conn # NilConn
  /\ dial.to = "10.0.0.5:22"
  /\ Len(StepCalls) = 5
  /\ StepCalls[5].arg = "proxy:10.0.0.5:22@prod"


\* C9: the recording policy selects the path of localSite.Dial: in recording
\* mode a Dial makes exactly one cache lookup and no direct network dial; in
\* non-recording mode it makes no cache lookup, builds no forwarder and
\* makes exactly one direct network dial
C9_ModeSelectsPath ==
  \A g \in Dialers :
    site[g].pc = "returned" =>
      IF recordingProxyEnabled
      THEN site[g].gets = 1 /\ site[g].netDials = 0
      ELSE site[g].gets = 0 /\ site[g].forwarders = 0 /\ site[g].netDials = 1

\* C10: SetAgent writes neither agent nor agentChan while a Dial holds the
\* mutex
C10_SetAgentStep == (mu # 0) => (agent' = agent /\ agentChan' = agentChan)

C10_SetAgentUnderLock == [][C10_SetAgentStep]_vars


\* C11: while a pickPeer iteration over the map is in progress, nothing
\* writes the map or the connInfo of a peer
C11_PickStep ==
  iter.pc = "range" =>
     /\ peers' = peers
     /\ \A s \in 1 .. Len(objs) : objs'[s].connInfo = objs[s].connInfo

C11_NoWriteDuringPick == [][C11_PickStep]_vars


\* the goroutines whose latest Dial got a certificate for addr
Got(addr) == { g \in Dialers : site[g].to = addr /\ site[g].cert # NoCert }

\* C12: the gets for one address cause one successful signing request and
\* return the same certificate; a failed fetch leaves the address out of
\* the cache, so that the next get for it signs again
C12_CacheState ==
  \A g \in Dialers :
    /\ site[g].cert # NoCert =>
         (site[g].to \in DOMAIN cache /\ cache[site[g].to] = site[g].cert)
    /\ \A h \in Got(site[g].to) : g \in Got(site[g].to) => site[h].cert = site[g].cert
    /\ site[g].signs <= 1

C12_GetStep ==
  \A g \in Dialers :
    (site[g].pc = "get" /\ site'[g].pc # "get") =>
       LET addr == site[g].to IN
       IF addr \in DOMAIN cache
       THEN /\ site'[g].signs = 0
            /\ site'[g].cert = cache[addr]
            /\ cache' = cache
       ELSE /\ site'[g].signs = 1
            /\ site'[g].err = "get failed" => addr \notin DOMAIN cache'
            /\ site'[g].err # "get failed" =>
                  (addr \in DOMAIN cache' /\ cache'[addr] = site'[g].cert)

InSection(g) == site[g].pc \in {"get", "forward.New", "remoteServer.Dial"}

\* C14: at most one localSite.Dial is between acquiring and releasing the
\* mutex, and it is the one holding it
C14_DialsSerialize ==
  /\ \A g, h \in Dialers : (InSection(g) /\ InSection(h)) => g = h
  /\ \A g \in Dialers : InSection(g) <=> mu = g

\* one Dial builds its forwarder while another waits in s.Lock()
C14_Witness ==
  \E g, h \in Dialers :
    /\ site[g].pc = "forward.New"
    /\ site[h].pc = "Lock"
    /\ site[g].to = site[h].to

\* C15: on the recording path a failed step ends the Dial with a nil
\* connection and no later step; a connection is returned only after the
\* lookup, forward.New and the forwarder's Dial all succeeded; no direct
\* network dial is ever made
C15_FailureStops ==
  \A g \in Dialers :
    /\ site[g].netDials = 0
    /\ site[g].pc = "forward.New" => (site[g].gets = 1 /\ site[g].cert # NoCert)
    /\ site[g].pc = "returned" =>
         /\ site[g].err \in {"nil", "get failed", "forward.New failed",
                             "remoteServer.Dial failed"}
         /\ site[g].err = "get failed" =>
              (site[g].conn = NilConn /\ site[g].gets = 1
               /\ site[g].forwarders = 0 /\ site[g].forwarderDials = 0)
         /\ site[g].err = "forward.New failed" =>
              (site[g].conn = NilConn /\ site[g].forwarders = 1
               /\ site[g].forwarderDials = 0)
         /\ site[g].err = "remoteServer.Dial failed" =>
              (site[g].conn = NilConn /\ site[g].forwarderDials = 1)
         /\ site[g].conn # NilConn =>
              (site[g].err = "nil" /\ site[g].cert # NoCert /\ site[g].gets = 1
               /\ site[g].forwarders = 1 /\ site[g].forwarderDials = 1)
         /\ site[g].err = "nil" => site[g].conn # NilConn

\* a Dial has returned the failure of forward.New
C15_Witness ==
  \E g \in Dialers :
    /\ site[g].pc = "returned"
    /\ site[g].err = "forward.New failed"
    /\ site[g].gets = 1

\* C18: a localSite.Dial that has returned has released the mutex exactly
\* once and no longer holds it; a Dial waiting in s.Lock() eventually
\* acquires the mutex
C18_Released ==
  \A g \in Dialers :
    /\ site[g].pc = "returned" => (site[g].unlocks = 1 /\ mu # g)
    /\ site[g].pc \in {"idle", "Lock"} => (site[g].unlocks = 0 /\ mu # g)
    /\ InSection(g) => site[g].unlocks = 0

C18_UnlockedOnReturn ==
  /\ []C18_Released
  /\ \A g \in Dialers : (site[g].pc = "Lock") ~> (mu = g)

\* a Dial has returned an error and released the mutex, which another Dial
\* now holds
C18_Witness ==
  \E g, h \in Dialers :
    /\ site[g].pc = "returned"
    /\ site[g].err # "nil"
    /\ site[g].unlocks = 1
    /\ mu = h


\* C13: the proxy address a clusterPeer.Dial connects to and the cluster
\* name in its subsystem request come from one and the same descriptor
C13_OneDescriptor ==
  (Len(StepCalls) = Len(DialSteps)) =>
     \E e \in Endpoints :
       /\ StepCalls[1].arg = e[1]
       /\ StepCalls[5].arg = "proxy:" \o dial.to \o "@" \o e[2]

\* C16: every key of the map is the name in the connInfo of the peer filed
\* under it and no peer is filed under two keys; addPeer with a name that is
\* present overwrites the entry and adds none
C16_KeysState ==
  /\ \A n \in DOMAIN peers : objs[peers[n]].connInfo.name = n
  /\ \A n, k \in DOMAIN peers : peers[n] = peers[k] => n = k

C16_AddStep ==
  (ret'.op = "addPeer" /\ ret'.name \in DOMAIN peers) =>
     /\ DOMAIN peers' = DOMAIN peers
     /\ peers'[ret'.name] = ret'.peer
     /\ \A n \in DOMAIN peers \ {ret'.name} : peers'[n] = peers[n]

C16_OneEntryPerName == []C16_KeysState /\ [][C16_AddStep]_vars

\* two peers built for one connection name, the later one in the map, whose
\* connInfo an updatePeer has replaced since
C16_Witness ==
  /\ Len(objs) = 2
  /\ objs[1].connInfo.name = objs[2].connInfo.name
  /\ DOMAIN peers = {objs[2].connInfo.name}
  /\ peers[objs[2].connInfo.name] = 2
  /\ ret.op = "updatePeer"
  /\ ret.ok
  /\ objs[2].connInfo.lastHeartbeat # objs[1].connInfo.lastHeartbeat

\* C17: clusterPeers.GetLastConnected is the greatest heart beat in the map
\* and the zero time on an empty map; localSite.GetLastConnected is the
\* current time and localSite.GetStatus is "online"
C17_LastConnected ==
  /\ ret.op = "GetLastConnected" =>
       IF DOMAIN peers = {}
       THEN ret.time = 0 /\ ret.peer = NilPeer
       ELSE /\ \E n \in DOMAIN peers : ret.time = LastHeartbeat(peers[n])
            /\ \A n \in DOMAIN peers : ret.time >= LastHeartbeat(peers[n])
  /\ ret.op = "localSite.GetLastConnected" => ret.time = ret.now
  /\ ret.op = "localSite.GetStatus" => ret.status = "online"

\* GetLastConnected has answered the later of two different heart beats
C17_Witness ==
  /\ ret.op = "GetLastConnected"
  /\ Cardinality(DOMAIN peers) = 2
  /\ \E n \in DOMAIN peers : LastHeartbeat(peers[n]) < ret.time

\* C19: newClusterPeer returns a peer only if NewProxyDialer, auth.NewClient
\* and newAccessPoint all succeeded, and runs no step after a failed one
C19_PeerOnlyIfAllSucceeded ==
  ret.op = "newClusterPeer" =>
     /\ ret.peer # NilPeer => ret.dialerOk
     /\ ~ret.dialerOk => (ret.err # "nil" /\ ret.reached = "NewProxyDialer")


\* C20: once destroy() has returned, no resize is applied to the terminal
\* and no screen-size request is sent, a pending debounced call included
C20_QuietStep ==
  terminal.state = "destroyed" =>
     /\ terminal'.puts = terminal.puts
     /\ terminal'.cols = terminal.cols
     /\ terminal'.rows = terminal.rows
     /\ terminal'.xterm = terminal.xterm

C20_QuietAfterDestroy == [][C20_QuietStep]_vars

====
